---- MODULE Spec2Model ----
(***************************************************************************)
(* Records gateway of backend/database/crud.py: CRUD operations over       *)
(* classes, students, skills, problems and interactions, plus the two      *)
(* aggregation queries.  The committed store is the state; every action is *)
(* one gateway call, cut only at the db.commit() calls that make the store *)
(* visible in between (create_interaction commits twice).                  *)
(*                                                                         *)
(* Timestamps are positive integers; NoTime stands for Python's None.      *)
(* datetime.utcnow() is an input drawn from Times: the wall clock is not   *)
(* under the program's control.                                            *)
(*                                                                         *)
(* The store is the one the code addresses: it hands out fresh ids, keeps  *)
(* the unique keys of Skill and Problem, and otherwise commits what the    *)
(* code adds, changes and deletes.  The code checks no foreign key of a    *)
(* row it adds, and neither does the model.                                *)
(*                                                                         *)
(* A definition named after another one with a suffix (_with_deleted,      *)
(* _none, ...) is that definition with a fault seeded, kept to show that   *)
(* the properties below tell the two apart.                                *)
(***************************************************************************)
EXTENDS Integers, Sequences, FiniteSets, TLC

\* ------------------------------------------------------------------ bounds
\* rows the tables Class, Student and Interaction may hold in a run
MaxClasses == 2
MaxStudents == 2
MaxInteractions == 3

\* timestamps, and the limits a caller passes to get_classes_for_dashboard
Times == {1, 2}
Limits == {0, 1, 2}
TeacherIds == {1, 2}
\* payloads of ClassCreate (name, description) and StudentCreate (first_name, last_name)
ClassData == {[name |-> "A", description |-> "a"], [name |-> "B", description |-> "b"]}
StudentData == {[first_name |-> "F", last_name |-> "f"], [first_name |-> "G", last_name |-> "g"]}
\* keys of SkillCreate and ProblemCreate: internal_idx and the original (dataset) id
SkillKeys == {[internal_idx |-> 1, original_skill_id |-> "s1"],
              [internal_idx |-> 2, original_skill_id |-> "s2"]}
ProblemKeys == {[internal_idx |-> 1, original_problem_id |-> "p1"],
                [internal_idx |-> 2, original_problem_id |-> "p2"]}
MuQs == {0, 1}
One(S) == {CHOOSE x \in S : TRUE}

NoTime == 0
NoPending == [active |-> FALSE, op |-> "", student_id |-> 0, timestamp |-> NoTime, in |-> <<>>, prev |-> NoTime]
NoRet == <<>>

VARIABLES
    classes,        \* table Class: id -> [name, description, teacher_id, created_at]
    students,       \* table Student: id -> [first_name, last_name, class_id, is_deleted, deleted_at, last_interaction_update_timestamp]
    skills,         \* table Skill: id -> [internal_idx, original_skill_id, name]
    problems,       \* table Problem: id -> [internal_idx, original_problem_id, description_placeholder, skill_id, difficulty_mu_q]
    interactions,   \* table Interaction: sequence, index = id, of [student_id, problem_id, skill_id, is_correct, timestamp]
    nextClassId,    \* the store's id sequence of Class
    nextStudentId,  \* the store's id sequence of Student
    pending,        \* create_interaction between its two commits
    last,           \* the last call's outcome: [op, arg, kind, val, in, prev]
    ret             \* the value a read returned (get_student_statistics, get_classes_for_dashboard)

vars == <<classes, students, skills, problems, interactions, nextClassId, nextStudentId, pending, last, ret>>
store == <<classes, students, skills, problems, interactions>>

\* what a call did: its name, its id argument, how it ended ("ok", "absent": None
\* returned, "error": ValueError raised, "store_error": the store refused the commit),
\* a value it produced, its other inputs, and the timestamp the student had before
Outcome6(op, arg, kind, val, in, prev) ==
    [op |-> op, arg |-> arg, kind |-> kind, val |-> val, in |-> in, prev |-> prev]
Outcome(op, arg, kind, val) == Outcome6(op, arg, kind, val, <<>>, 0)

Init ==
    /\ classes = <<>>
    /\ students = <<>>
    /\ skills = <<>>
    /\ problems = <<>>
    /\ interactions = <<>>
    /\ nextClassId = 1
    /\ nextStudentId = 1
    /\ pending = NoPending
    /\ last = Outcome("init", 0, "ok", 0)
    /\ ret = NoRet

\* db.delete of the rows ids, once committed
Remove(table, ids) == [k \in DOMAIN table \ ids |-> table[k]]

\* ------------------------------------------------------------------ Class
\* Query.first() of a lookup by primary key: the row's id, or nothing
get_class(class_id) == IF class_id \in DOMAIN classes THEN {class_id} ELSE {}

\* created_at is filled in when the row is inserted
create_class_for_teacher(class_data, teacher_id, now) ==
    /\ pending = NoPending
    /\ classes' = classes @@ (nextClassId :>
            [name |-> class_data.name, description |-> class_data.description,
             teacher_id |-> teacher_id, created_at |-> now])
    /\ nextClassId' = nextClassId + 1
    /\ last' = Outcome("create_class_for_teacher", nextClassId, "ok", 0)
    /\ ret' = NoRet
    /\ UNCHANGED <<students, skills, problems, interactions, nextStudentId, pending>>

update_class(class_id, class_update_data) ==
    /\ pending = NoPending
    /\ IF get_class(class_id) # {}
       THEN /\ classes' = [classes EXCEPT ![class_id].name = class_update_data.name,
                                          ![class_id].description = class_update_data.description]
            /\ last' = Outcome("update_class", class_id, "ok", 0)
       ELSE /\ classes' = classes
            /\ last' = Outcome("update_class", class_id, "absent", 0)
    /\ ret' = NoRet
    /\ UNCHANGED <<students, skills, problems, interactions, nextClassId, nextStudentId, pending>>

\* fault: the is_deleted filter is missing
active_student_count_with_deleted(class_id) ==
    Cardinality({s \in DOMAIN students : students[s].class_id = class_id})

\* lines 71-74
active_student_count(class_id) ==
    Cardinality({s \in DOMAIN students :
                    students[s].class_id = class_id /\ students[s].is_deleted = FALSE})

\* fault: the soft-deleted students are not deleted with the class
deleted_students_none(class_id) == {}

\* lines 79-82
deleted_students(class_id) ==
    {s \in DOMAIN students : students[s].class_id = class_id /\ students[s].is_deleted = TRUE}

delete_class(class_id) ==
    /\ pending = NoPending
    /\ ret' = NoRet
    /\ UNCHANGED <<skills, problems, interactions, nextClassId, nextStudentId, pending>>
    /\ IF get_class(class_id) = {}
       THEN /\ last' = Outcome("delete_class", class_id, "absent", 0)
            /\ UNCHANGED <<classes, students>>
       ELSE IF active_student_count(class_id) > 0
       THEN /\ last' = Outcome("delete_class", class_id, "error", active_student_count(class_id))
            /\ UNCHANGED <<classes, students>>
       ELSE /\ students' = Remove(students, deleted_students(class_id))
            /\ classes' = Remove(classes, {class_id})
            /\ last' = Outcome("delete_class", class_id, "ok", Cardinality(deleted_students(class_id)))

\* ---------------------------------------------------------------- Student
get_student(student_id) == IF student_id \in DOMAIN students THEN {student_id} ELSE {}

\* a new row is not deleted: is_deleted is False and deleted_at is None
create_student_in_class(student, class_id, now) ==
    /\ pending = NoPending
    /\ students' = students @@ (nextStudentId :>
            [first_name |-> student.first_name, last_name |-> student.last_name,
             class_id |-> class_id, is_deleted |-> FALSE, deleted_at |-> NoTime,
             last_interaction_update_timestamp |-> now])
    /\ nextStudentId' = nextStudentId + 1
    /\ last' = Outcome("create_student_in_class", nextStudentId, "ok", 0)
    /\ ret' = NoRet
    /\ UNCHANGED <<classes, skills, problems, interactions, nextClassId, pending>>

update_student(student_id, student_update_data) ==
    /\ pending = NoPending
    /\ IF get_student(student_id) # {}
       THEN /\ students' = [students EXCEPT ![student_id].first_name = student_update_data.first_name,
                                            ![student_id].last_name = student_update_data.last_name]
            /\ last' = Outcome("update_student", student_id, "ok", 0)
       ELSE /\ students' = students
            /\ last' = Outcome("update_student", student_id, "absent", 0)
    /\ ret' = NoRet
    /\ UNCHANGED <<classes, skills, problems, interactions, nextClassId, nextStudentId, pending>>

\* fault: the wall clock is taken whatever timestamp is given
new_timestamp_wall_clock(timestamp, now) == now

\* line 130: timestamp if timestamp else datetime.utcnow()
new_timestamp(timestamp, now) == IF timestamp # NoTime THEN timestamp ELSE now

\* the student table after update_student_last_interaction_timestamp's commit
with_last_interaction_timestamp(student_id, timestamp, now) ==
    IF get_student(student_id) # {}
    THEN [students EXCEPT ![student_id].last_interaction_update_timestamp = new_timestamp(timestamp, now)]
    ELSE students

update_student_last_interaction_timestamp(student_id, timestamp, now) ==
    /\ pending = NoPending
    /\ students' = with_last_interaction_timestamp(student_id, timestamp, now)
    /\ last' = Outcome("update_student_last_interaction_timestamp", student_id,
                       IF get_student(student_id) # {} THEN "ok" ELSE "absent", timestamp)
    /\ ret' = NoRet
    /\ UNCHANGED <<classes, skills, problems, interactions, nextClassId, nextStudentId, pending>>

\* fault: the row is deleted instead of marked
hard_deleted(student_id, now) == Remove(students, {student_id})

\* lines 138-139: the student table with the row marked deleted
soft_deleted(student_id, now) ==
    [students EXCEPT ![student_id].is_deleted = TRUE, ![student_id].deleted_at = now]

delete_student(student_id, now) ==
    /\ pending = NoPending
    /\ IF get_student(student_id) # {}
       THEN /\ students' = soft_deleted(student_id, now)
            /\ last' = Outcome("delete_student", student_id, "ok", 0)
       ELSE /\ students' = students
            /\ last' = Outcome("delete_student", student_id, "absent", 0)
    /\ ret' = NoRet
    /\ UNCHANGED <<classes, skills, problems, interactions, nextClassId, nextStudentId, pending>>

\* ------------------------------------------------------------------ Skill
get_skill_by_internal_idx(internal_idx) ==
    {k \in DOMAIN skills : skills[k].internal_idx = internal_idx}

get_skill_by_original_id(original_skill_id) ==
    {k \in DOMAIN skills : skills[k].original_skill_id = original_skill_id}

\* the store's unique constraints on Skill.internal_idx and Skill.original_skill_id
skill_unique(internal_idx, original_skill_id) ==
    /\ get_skill_by_internal_idx(internal_idx) = {}
    /\ get_skill_by_original_id(original_skill_id) = {}

create_skill(internal_idx, original_skill_id, name) ==
    /\ pending = NoPending
    /\ IF skill_unique(internal_idx, original_skill_id)
       THEN /\ skills' = skills @@ (Cardinality(DOMAIN skills) + 1 :>
                    [internal_idx |-> internal_idx, original_skill_id |-> original_skill_id,
                     name |-> name])
            /\ last' = Outcome("create_skill", Cardinality(DOMAIN skills) + 1, "ok", 0)
       ELSE /\ skills' = skills
            /\ last' = Outcome("create_skill", 0, "store_error", 0)
    /\ ret' = NoRet
    /\ UNCHANGED <<classes, students, problems, interactions, nextClassId, nextStudentId, pending>>

\* ---------------------------------------------------------------- Problem
get_problem(problem_id) == IF problem_id \in DOMAIN problems THEN {problem_id} ELSE {}

get_problem_by_internal_idx(internal_idx) ==
    {p \in DOMAIN problems : problems[p].internal_idx = internal_idx}

get_problem_by_original_id(original_problem_id) ==
    {p \in DOMAIN problems : problems[p].original_problem_id = original_problem_id}

\* the store's unique constraints on Problem.internal_idx and Problem.original_problem_id
problem_unique(internal_idx, original_problem_id) ==
    /\ get_problem_by_internal_idx(internal_idx) = {}
    /\ get_problem_by_original_id(original_problem_id) = {}

\* Query.first(): a row of the result, or None
first(rows) == CHOOSE r \in rows : TRUE

create_problem(internal_idx, original_problem_id, description_placeholder, skill_internal_idx, difficulty_mu_q) ==
    /\ pending = NoPending
    /\ ret' = NoRet
    /\ UNCHANGED <<classes, students, skills, interactions, nextClassId, nextStudentId, pending>>
    /\ IF get_skill_by_internal_idx(skill_internal_idx) = {}
       THEN /\ problems' = problems
            /\ last' = Outcome("create_problem", 0, "error", skill_internal_idx)
       ELSE IF problem_unique(internal_idx, original_problem_id)
       THEN /\ problems' = problems @@ (Cardinality(DOMAIN problems) + 1 :>
                    [internal_idx |-> internal_idx,
                     original_problem_id |-> original_problem_id,
                     description_placeholder |-> description_placeholder,
                     skill_id |-> first(get_skill_by_internal_idx(skill_internal_idx)),
                     difficulty_mu_q |-> difficulty_mu_q])
            /\ last' = Outcome("create_problem", Cardinality(DOMAIN problems) + 1, "ok", 0)
       ELSE /\ problems' = problems
            /\ last' = Outcome("create_problem", 0, "store_error", 0)

\* fault: the update also resets the problem's skill
with_mu_q_and_skill(problem, mu_q) == [problem EXCEPT !.difficulty_mu_q = mu_q, !.skill_id = 0]

\* line 210: the only field update_problem_mu_q assigns
with_mu_q(problem, mu_q) == [problem EXCEPT !.difficulty_mu_q = mu_q]

update_problem_mu_q(problem_internal_idx, mu_q) ==
    /\ pending = NoPending
    /\ IF get_problem_by_internal_idx(problem_internal_idx) # {}
       THEN LET p == first(get_problem_by_internal_idx(problem_internal_idx)) IN
            /\ problems' = [problems EXCEPT ![p] = with_mu_q(problems[p], mu_q)]
            /\ last' = Outcome("update_problem_mu_q", p, "ok", 0)
       ELSE /\ problems' = problems
            /\ last' = Outcome("update_problem_mu_q", 0, "absent", 0)
    /\ ret' = NoRet
    /\ UNCHANGED <<classes, students, skills, interactions, nextClassId, nextStudentId, pending>>

\* ------------------------------------------------------------ Interaction
\* fault: the comparison of the skill ids is missing
interaction_error_skill_unchecked(problem_db_id, skill_db_id) ==
    IF get_problem(problem_db_id) = {} THEN "not_found" ELSE "none"

\* lines 256-261: the ValueError create_interaction raises, or "none"
interaction_error(problem_db_id, skill_db_id) ==
    IF get_problem(problem_db_id) = {} THEN "not_found"
    ELSE IF problems[problem_db_id].skill_id # skill_db_id THEN "mismatch"
    ELSE "none"

\* lines 263-271: the row is added and committed; the timestamp update is still to come
insert_interaction(op, in, student_id, problem_db_id, skill_db_id, is_correct, timestamp) ==
    /\ interactions' = Append(interactions,
            [student_id |-> student_id, problem_id |-> problem_db_id, skill_id |-> skill_db_id,
             is_correct |-> is_correct, timestamp |-> timestamp])
    /\ pending' = [active |-> TRUE, op |-> op, student_id |-> student_id, timestamp |-> timestamp,
                   in |-> in,
                   prev |-> IF get_student(student_id) # {}
                            THEN students[student_id].last_interaction_update_timestamp
                            ELSE NoTime]
    /\ last' = Outcome6(op, student_id, "inserted", timestamp, in, 0)

create_interaction(student_id, problem_db_id, skill_db_id, is_correct, timestamp) ==
    /\ pending = NoPending
    /\ ret' = NoRet
    /\ UNCHANGED <<classes, students, skills, problems, nextClassId, nextStudentId>>
    /\ IF interaction_error(problem_db_id, skill_db_id) # "none"
       THEN /\ last' = Outcome6("create_interaction", student_id, "error",
                                interaction_error(problem_db_id, skill_db_id),
                                <<problem_db_id, skill_db_id, is_correct>>, 0)
            /\ UNCHANGED <<interactions, pending>>
       ELSE insert_interaction("create_interaction", <<problem_db_id, skill_db_id, is_correct>>,
                               student_id, problem_db_id, skill_db_id, is_correct, timestamp)

\* line 273: update_student_last_interaction_timestamp, with its own commit
create_interaction_timestamp(now) ==
    /\ pending.active
    /\ students' = with_last_interaction_timestamp(pending.student_id, pending.timestamp, now)
    /\ pending' = NoPending
    /\ last' = Outcome6(pending.op, pending.student_id, "ok", pending.timestamp, pending.in, pending.prev)
    /\ ret' = NoRet
    /\ UNCHANGED <<classes, skills, problems, interactions, nextClassId, nextStudentId>>

\* the call ends between line 271's commit and line 273 (db.refresh raises, the process dies)
create_interaction_fails_after_insert ==
    /\ pending.active
    /\ pending' = NoPending
    /\ last' = Outcome6(pending.op, pending.student_id, "crashed", pending.timestamp, pending.in, pending.prev)
    /\ ret' = NoRet
    /\ UNCHANGED <<classes, students, skills, problems, interactions, nextClassId, nextStudentId>>

\* fault: the ValueError is not caught
except_ValueError_missing(error) == "error"

\* lines 296-299: try ... except ValueError: return None
except_ValueError(error) == "absent"

create_interaction_from_csv(student_id, problem_original_id, skill_original_id, is_correct, timestamp) ==
    /\ pending = NoPending
    /\ ret' = NoRet
    /\ UNCHANGED <<classes, students, skills, problems, nextClassId, nextStudentId>>
    /\ IF get_problem_by_original_id(problem_original_id) = {}
       THEN /\ last' = Outcome6("create_interaction_from_csv", student_id, "absent", "no_problem",
                                <<problem_original_id, skill_original_id, is_correct>>, 0)
            /\ UNCHANGED <<interactions, pending>>
       ELSE IF get_skill_by_original_id(skill_original_id) = {}
       THEN /\ last' = Outcome6("create_interaction_from_csv", student_id, "absent", "no_skill",
                                <<problem_original_id, skill_original_id, is_correct>>, 0)
            /\ UNCHANGED <<interactions, pending>>
       ELSE LET db_problem == first(get_problem_by_original_id(problem_original_id))
                db_skill == first(get_skill_by_original_id(skill_original_id))
            IN  IF interaction_error(db_problem, db_skill) # "none"
                THEN /\ last' = Outcome6("create_interaction_from_csv", student_id,
                                         except_ValueError(interaction_error(db_problem, db_skill)),
                                         interaction_error(db_problem, db_skill),
                                         <<problem_original_id, skill_original_id, is_correct>>, 0)
                     /\ UNCHANGED <<interactions, pending>>
                ELSE insert_interaction("create_interaction_from_csv",
                                        <<problem_original_id, skill_original_id, is_correct>>,
                                        student_id, db_problem, db_skill, is_correct, timestamp)

\* ------------------------------------------------------------- Aggregation
student_interactions(student_id) ==
    {i \in 1..Len(interactions) : interactions[i].student_id = student_id}

Max(S) == CHOOSE x \in S : \A y \in S : y <= x

\* fault: the value is cut to two decimal places, not rounded
round2_percent_truncated(n, d) == (10000 * n) \div d

\* line 336, round(n / d * 100, 2), in hundredths of a percent: the nearest integer
\* to 10000 n / d, ties to even.  (The float arithmetic of the code gives the same
\* value for every d below 160.)
round2_percent(n, d) ==
    LET q == (10000 * n) \div d
        r == (10000 * n) % d
    IN  IF 2 * r < d THEN q
        ELSE IF 2 * r > d THEN q + 1
        ELSE IF q % 2 = 0 THEN q ELSE q + 1

\* datetime.isoformat(): a string that carries the timestamp
isoformat(t) == <<"iso", t>>

\* lines 314-341: the dictionary get_student_statistics returns for a student that exists
statistics(student_id) ==
    LET mine == student_interactions(student_id)
        total == Cardinality(mine)
        correct == Cardinality({i \in mine : interactions[i].is_correct = TRUE})
        skills_practiced == Cardinality({interactions[i].skill_id : i \in mine})
        last_activity == IF mine = {} THEN NoTime ELSE Max({interactions[i].timestamp : i \in mine})
        problems_attempted == Cardinality({interactions[i].problem_id : i \in mine})
    IN  [total_interactions |-> total,
         correct_interactions |-> correct,
         incorrect_interactions |-> total - correct,
         accuracy |-> IF total > 0 THEN round2_percent(correct, total) ELSE 0,
         skills_practiced |-> skills_practiced,
         problems_attempted |-> problems_attempted,
         last_activity |-> IF last_activity # NoTime THEN isoformat(last_activity) ELSE <<>>,
         activity_status |-> IF last_activity # NoTime THEN "active" ELSE "no_activity"]

get_student_statistics(student_id) ==
    /\ pending = NoPending
    /\ IF get_student(student_id) = {}
       THEN /\ ret' = NoRet
            /\ last' = Outcome("get_student_statistics", student_id, "absent", 0)
       ELSE /\ ret' = statistics(student_id)
            /\ last' = Outcome("get_student_statistics", student_id, "ok", 0)
    /\ UNCHANGED <<classes, students, skills, problems, interactions, nextClassId, nextStudentId, pending>>

\* fault: the subquery counts the soft-deleted students too
student_count_with_deleted(class_id) ==
    Cardinality({s \in DOMAIN students : students[s].class_id = class_id})

\* lines 350-358 and 364: the count of the class's students with is_deleted = False,
\* coalesced to 0 for a class the subquery has no row for
student_count_subquery(class_id) ==
    Cardinality({s \in DOMAIN students :
                    students[s].class_id = class_id /\ students[s].is_deleted = FALSE})

Min2(a, b) == IF a < b THEN a ELSE b

\* lines 360-371: the rows of the outer join of the teacher's classes, newest first,
\* cut to limit; rows with equal created_at come in any order
dashboard_rows(teacher_id, limit) ==
    LET mine == {c \in DOMAIN classes : classes[c].teacher_id = teacher_id}
        n == Min2(limit, Cardinality(mine))
    IN  {q \in [1..n -> mine] :
            /\ \A i, j \in 1..n : i # j => q[i] # q[j]
            /\ \A i, j \in 1..n : i < j => classes[q[i]].created_at >= classes[q[j]].created_at
            /\ \A c \in mine : (\A i \in 1..n : q[i] # c) =>
                    \A i \in 1..n : classes[q[i]].created_at >= classes[c].created_at}

get_classes_for_dashboard(teacher_id, limit) ==
    /\ pending = NoPending
    /\ \E q \in dashboard_rows(teacher_id, limit) :
            ret' = [i \in 1..Len(q) |->
                        [id |-> q[i], name |-> classes[q[i]].name,
                         student_count |-> student_count_subquery(q[i])]]
    /\ last' = Outcome("get_classes_for_dashboard", teacher_id, "ok", limit)
    /\ UNCHANGED <<classes, students, skills, problems, interactions, nextClassId, nextStudentId, pending>>

\* ------------------------------------------------------------------- Next
(***************************************************************************)
(* Every specification runs the whole gateway.  A profile P says how many  *)
(* rows each table may hold and which values the callers pass, so that one *)
(* part of the store can be explored in depth while the rest stays small.  *)
(***************************************************************************)
Next(P) ==
    \/ /\ nextClassId <= P.maxClasses
       /\ \E d \in P.classData, t \in P.teachers, now \in P.classTimes :
            create_class_for_teacher(d, t, now)
    \/ \E c \in 1..P.maxClasses, d \in P.classData : update_class(c, d)
    \/ \E c \in 1..P.maxClasses : delete_class(c)
    \/ /\ nextStudentId <= P.maxStudents
       /\ \E d \in P.studentData, c \in 1..P.maxClasses, now \in P.studentTimes :
            create_student_in_class(d, c, now)
    \/ \E s \in 1..P.maxStudents, d \in P.studentData : update_student(s, d)
    \/ \E s \in 1..P.maxStudents, t \in P.studentTimes \cup {NoTime}, now \in P.studentTimes :
            update_student_last_interaction_timestamp(s, t, now)
    \/ \E s \in 1..P.maxStudents, now \in P.deleteTimes : delete_student(s, now)
    \/ /\ Cardinality(DOMAIN skills) < P.maxSkills
       /\ \E k \in P.skillKeys : create_skill(k.internal_idx, k.original_skill_id, "n")
    \/ /\ Cardinality(DOMAIN problems) < P.maxProblems
       /\ \E k \in P.problemKeys, sk \in P.skillKeys, m \in P.muQs :
            create_problem(k.internal_idx, k.original_problem_id, "d", sk.internal_idx, m)
    \/ \E k \in P.problemKeys, m \in P.muQs : update_problem_mu_q(k.internal_idx, m)
    \/ /\ Len(interactions) < P.maxInteractions
       /\ \E s \in P.interactionStudents, p \in 1..P.maxProblems, k \in 1..P.maxSkills,
             b \in P.isCorrect, t \in P.interactionTimes :
            create_interaction(s, p, k, b, t)
    \/ \E now \in P.studentTimes : create_interaction_timestamp(now)
    \/ create_interaction_fails_after_insert
    \/ /\ Len(interactions) < P.maxInteractions
       /\ \E s \in P.interactionStudents, p \in P.problemKeys, k \in P.skillKeys,
             b \in P.isCorrect, t \in P.interactionTimes :
            create_interaction_from_csv(s, p.original_problem_id, k.original_skill_id, b, t)
    \/ \E s \in 1..P.maxStudents : get_student_statistics(s)
    \/ \E t \in P.teachers, l \in P.limits : get_classes_for_dashboard(t, l)

\* classes and their students in depth; one skill, one problem, one interaction
RosterProfile ==
    [maxClasses |-> MaxClasses, maxStudents |-> MaxStudents,
     maxSkills |-> 1, maxProblems |-> 1, maxInteractions |-> 1,
     classData |-> One(ClassData), teachers |-> {1}, classTimes |-> {1},
     studentData |-> One(StudentData), studentTimes |-> {1}, deleteTimes |-> {1},
     skillKeys |-> One(SkillKeys), problemKeys |-> One(ProblemKeys), muQs |-> {0},
     interactionStudents |-> {1}, isCorrect |-> {TRUE}, interactionTimes |-> {1},
     limits |-> {1}]

\* the classes of two teachers, created at different times, and the dashboard's limits
DashboardProfile ==
    [maxClasses |-> MaxClasses, maxStudents |-> 2,
     maxSkills |-> 1, maxProblems |-> 1, maxInteractions |-> 1,
     classData |-> One(ClassData), teachers |-> TeacherIds, classTimes |-> Times,
     studentData |-> One(StudentData), studentTimes |-> {1}, deleteTimes |-> {1},
     skillKeys |-> One(SkillKeys), problemKeys |-> One(ProblemKeys), muQs |-> {0},
     interactionStudents |-> {1}, isCorrect |-> {TRUE}, interactionTimes |-> {1},
     limits |-> Limits]

\* skills, problems and interactions in depth; one class, one student
LearningProfile ==
    [maxClasses |-> 1, maxStudents |-> 1,
     maxSkills |-> Cardinality(SkillKeys), maxProblems |-> Cardinality(ProblemKeys),
     maxInteractions |-> 2,
     classData |-> ClassData, teachers |-> {1}, classTimes |-> {1},
     studentData |-> One(StudentData), studentTimes |-> Times, deleteTimes |-> {1},
     skillKeys |-> SkillKeys, problemKeys |-> ProblemKeys, muQs |-> MuQs,
     interactionStudents |-> {1}, isCorrect |-> {TRUE}, interactionTimes |-> Times,
     limits |-> {1}]

\* one student's interactions in depth
StatisticsProfile ==
    [maxClasses |-> 1, maxStudents |-> 1,
     maxSkills |-> Cardinality(SkillKeys), maxProblems |-> Cardinality(ProblemKeys),
     maxInteractions |-> MaxInteractions,
     classData |-> One(ClassData), teachers |-> {1}, classTimes |-> {1},
     studentData |-> One(StudentData), studentTimes |-> {1}, deleteTimes |-> {1},
     skillKeys |-> SkillKeys, problemKeys |-> ProblemKeys, muQs |-> {0},
     interactionStudents |-> {1}, isCorrect |-> BOOLEAN, interactionTimes |-> {1},
     limits |-> {1}]

NextRoster == Next(RosterProfile)
NextDashboard == Next(DashboardProfile)
NextLearning == Next(LearningProfile)
NextStatistics == Next(StatisticsProfile)

Spec == Init /\ [][NextRoster]_vars
SpecDashboard == Init /\ [][NextDashboard]_vars
SpecLearning == Init /\ [][NextLearning]_vars
SpecStatistics == Init /\ [][NextStatistics]_vars

\* ----------------------------------------------------------------- claims
\* the rows of a student table that belong to a class, and the active ones among them
MembersOf(table, class_id) == {s \in DOMAIN table : table[s].class_id = class_id}
ActiveOf(table, class_id) == {s \in MembersOf(table, class_id) : ~table[s].is_deleted}
ClassIds == 1..MaxClasses

\* C1: delete_class on an existing class with N >= 1 active students raises the
\* domain error, its message carries N, and no table of the store changes.
C1_DeleteClassRefused ==
    [][\A c \in ClassIds :
        (last'.op = "delete_class" /\ last'.arg = c /\ c \in DOMAIN classes
            /\ ActiveOf(students, c) # {})
        => /\ last'.kind = "error"
           /\ last'.val = Cardinality(ActiveOf(students, c))
           /\ store' = store]_vars

\* a refused delete_class on a class with one active and one soft-deleted student
C1_Witness ==
    /\ last.op = "delete_class" /\ last.kind = "error" /\ last.val = 1
    /\ last.arg \in DOMAIN classes
    /\ Cardinality(ActiveOf(students, last.arg)) = 1
    /\ Cardinality(MembersOf(students, last.arg)) = 2

\* C2: a delete_class that succeeds acted on a class without active students; in the
\* same step the class row and every student row of the class are gone, every other
\* class and student row is as before; and no step at all removes a class without its
\* students or students without their class.
C2_DeleteClassRemovesAll ==
    [][/\ \A c \in ClassIds :
            (last'.op = "delete_class" /\ last'.arg = c /\ last'.kind = "ok")
            => /\ c \in DOMAIN classes
               /\ ActiveOf(students, c) = {}
               /\ c \notin DOMAIN classes'
               /\ MembersOf(students', c) = {}
               /\ classes' = Remove(classes, {c})
               /\ students' = Remove(students, MembersOf(students, c))
       /\ \A c \in DOMAIN classes \ DOMAIN classes' : MembersOf(students', c) = {}
       /\ \A s \in DOMAIN students \ DOMAIN students' :
            students[s].class_id \in DOMAIN classes \ DOMAIN classes']_vars

\* a delete_class that removed a soft-deleted student and left another class and student
C2_Witness ==
    /\ last.op = "delete_class" /\ last.kind = "ok" /\ last.val = 1
    /\ last.arg \notin DOMAIN classes
    /\ DOMAIN classes # {}
    /\ DOMAIN students # {}

\* C8: a student row leaves the store only in a successful delete_class and only if
\* it was soft-deleted in the state before; delete_student keeps every row and marks
\* the one it is given.
C8_HardDeleteOnlyAfterSoftDelete ==
    [][/\ \A s \in DOMAIN students :
            s \notin DOMAIN students'
            => /\ students[s].is_deleted
               /\ last'.op = "delete_class" /\ last'.kind = "ok"
       /\ last'.op = "delete_student"
            => /\ DOMAIN students' = DOMAIN students
               /\ \A s \in DOMAIN students :
                    IF s = last'.arg
                    THEN /\ students'[s].is_deleted
                         /\ students'[s].deleted_at # NoTime
                         /\ students'[s].class_id = students[s].class_id
                    ELSE students'[s] = students[s]]_vars

\* delete_student marked a student after an earlier delete_class had removed another
C8_Witness ==
    /\ last.op = "delete_student" /\ last.kind = "ok"
    /\ last.arg \in DOMAIN students
    /\ students[last.arg].is_deleted
    /\ nextStudentId - 1 > Cardinality(DOMAIN students)

\* C10: get_classes_for_dashboard(teacher_id, limit) returns min(limit, number of the
\* teacher's classes) distinct classes of that teacher, none older than a class left
\* out, newest first, each with its name and the number of its students that are not
\* soft-deleted (0 for a class without any).
C10_Dashboard ==
    last.op = "get_classes_for_dashboard" =>
        LET mine == {c \in DOMAIN classes : classes[c].teacher_id = last.arg}
            n == Len(ret)
        IN  /\ n <= last.val
            /\ n = IF Cardinality(mine) < last.val THEN Cardinality(mine) ELSE last.val
            /\ \A i \in 1..n : ret[i].id \in mine
            /\ \A i, j \in 1..n : i # j => ret[i].id # ret[j].id
            /\ \A i, j \in 1..n : i < j =>
                    classes[ret[i].id].created_at >= classes[ret[j].id].created_at
            /\ \A c \in mine : (\A i \in 1..n : ret[i].id # c) =>
                    \A i \in 1..n : classes[ret[i].id].created_at >= classes[c].created_at
            /\ \A i \in 1..n :
                    /\ ret[i].name = classes[ret[i].id].name
                    /\ ret[i].student_count = Cardinality(ActiveOf(students, ret[i].id))

\* two classes of one teacher, the newer first; one has an active student, the other
\* only a soft-deleted one and is listed with 0
C10_Witness ==
    /\ last.op = "get_classes_for_dashboard"
    /\ Len(ret) = 2
    /\ classes[ret[1].id].created_at > classes[ret[2].id].created_at
    /\ \E i, j \in 1..2 :
        /\ ret[i].student_count = 0
        /\ MembersOf(students, ret[i].id) # {}
        /\ ret[j].student_count = 1

\* the problem and skill ids create_interaction was called with
ProblemArg(o) == o.in[1]
SkillArg(o) == o.in[2]

\* C3: create_interaction with a problem id that does not resolve, or with a skill id
\* other than the resolved problem's, raises the domain error, inserts no interaction
\* and leaves every student row (its last_interaction_update_timestamp too) as it was.
C3_CreateInteractionRejects ==
    [][(last'.op = "create_interaction" /\ last'.kind \in {"error", "inserted"}
            /\ (\/ ProblemArg(last') \notin DOMAIN problems
                \/ problems[ProblemArg(last')].skill_id # SkillArg(last')))
        => /\ last'.kind = "error"
           /\ interactions' = interactions
           /\ students' = students
           /\ pending' = NoPending]_vars

\* a call refused because the problem belongs to another skill, with a student present
C3_Witness ==
    /\ last.op = "create_interaction" /\ last.kind = "error"
    /\ ProblemArg(last) \in DOMAIN problems
    /\ problems[ProblemArg(last)].skill_id # SkillArg(last)
    /\ SkillArg(last) \in DOMAIN skills
    /\ last.arg \in DOMAIN students

\* C4: when create_interaction has returned for an existing student, the student's
\* last_interaction_update_timestamp is the timestamp of the interaction it inserted.
C4_TimestampIsInteractions ==
    (last.op = "create_interaction" /\ last.kind = "ok" /\ last.arg \in DOMAIN students)
    => /\ students[last.arg].last_interaction_update_timestamp = last.val
       /\ interactions[Len(interactions)].timestamp = last.val
       /\ interactions[Len(interactions)].student_id = last.arg

\* the interaction's timestamp is earlier than the value the student had before
C4_Witness ==
    /\ last.op = "create_interaction" /\ last.kind = "ok"
    /\ last.arg \in DOMAIN students
    /\ last.prev # NoTime
    /\ last.val < last.prev

\* C5: no state of the store left behind by a failure between create_interaction's two
\* writes holds the new interaction while the student's
\* last_interaction_update_timestamp is not that interaction's timestamp.
C5_InsertAndTimestampAtomic ==
    (last.op = "create_interaction" /\ last.kind = "crashed" /\ last.arg \in DOMAIN students)
    => ~ /\ Len(interactions) > 0
         /\ interactions[Len(interactions)].student_id = last.arg
         /\ interactions[Len(interactions)].timestamp = last.val
         /\ students[last.arg].last_interaction_update_timestamp # last.val

\* the rows the original ids of a CSV row resolve to
CsvProblems(o) == {p \in DOMAIN problems : problems[p].original_problem_id = o.in[1]}
CsvSkills(o) == {k \in DOMAIN skills : skills[k].original_skill_id = o.in[2]}
CsvInvalid(o) ==
    \/ CsvProblems(o) = {}
    \/ CsvSkills(o) = {}
    \/ \E p \in CsvProblems(o) : problems[p].skill_id \notin CsvSkills(o)

\* C6: create_interaction_from_csv returns None, raises nothing and changes nothing
\* when the problem's or the skill's original id does not resolve or the problem is
\* not of that skill; in every other case it inserts exactly one interaction, of the
\* resolved problem and skill.
C6_CsvRowSkippedOrInserted ==
    [][(last'.op = "create_interaction_from_csv" /\ last'.kind \in {"absent", "error", "inserted"})
        => IF CsvInvalid(last')
           THEN /\ last'.kind = "absent"
                /\ store' = store
                /\ pending' = NoPending
           ELSE /\ last'.kind = "inserted"
                /\ Len(interactions') = Len(interactions) + 1
                /\ SubSeq(interactions', 1, Len(interactions)) = interactions
                /\ LET row == interactions'[Len(interactions')]
                   IN  /\ row.problem_id \in CsvProblems(last')
                       /\ row.skill_id \in CsvSkills(last')
                       /\ row.student_id = last'.arg
                       /\ row.is_correct = last'.in[3]
                       /\ row.timestamp = last'.val]_vars

\* a row whose ids both resolve but whose problem is of another skill was skipped
C6_Witness ==
    /\ last.op = "create_interaction_from_csv" /\ last.kind = "absent"
    /\ CsvProblems(last) # {}
    /\ CsvSkills(last) # {}
    /\ CsvInvalid(last)

\* C7: every stored interaction references a stored problem whose skill_id is the
\* interaction's skill_id.
C7_InteractionSkillIsProblemSkill ==
    \A i \in 1..Len(interactions) :
        /\ interactions[i].problem_id \in DOMAIN problems
        /\ problems[interactions[i].problem_id].skill_id = interactions[i].skill_id

\* update_problem_mu_q changed the difficulty of a problem that has an interaction
C7_Witness ==
    /\ last.op = "update_problem_mu_q" /\ last.kind = "ok"
    /\ problems[last.arg].difficulty_mu_q = 1
    /\ \E i \in 1..Len(interactions) : interactions[i].problem_id = last.arg
    /\ Cardinality(DOMAIN skills) = 2

\* the interactions of the student get_student_statistics was called for
StatRows(o) == {i \in 1..Len(interactions) : interactions[i].student_id = o.arg}
StatCorrect(o) == {i \in StatRows(o) : interactions[i].is_correct}
Abs(x) == IF x < 0 THEN -x ELSE x

\* what C9 says of every field but accuracy
StatCounts(o, r) ==
    /\ r.total_interactions = Cardinality(StatRows(o))
    /\ r.correct_interactions = Cardinality(StatCorrect(o))
    /\ r.incorrect_interactions = Cardinality(StatRows(o)) - Cardinality(StatCorrect(o))
    /\ r.skills_practiced = Cardinality({interactions[i].skill_id : i \in StatRows(o)})
    /\ r.problems_attempted = Cardinality({interactions[i].problem_id : i \in StatRows(o)})
    /\ r.activity_status = IF StatRows(o) # {} THEN "active" ELSE "no_activity"

\* C9 as amended: get_student_statistics returns nothing for a student that does not
\* exist; otherwise the counts are those of the student's interactions, the activity
\* status tells whether there is one, and accuracy is 0 without interactions and
\* correct/total*100 rounded to two decimal places otherwise (accuracy is held in
\* hundredths of a percent: 7000 is 70.0).
C9_Statistics ==
    /\ round2_percent(7, 10) = 7000
    /\ last.op = "get_student_statistics" =>
        IF last.arg \notin DOMAIN students
        THEN last.kind = "absent" /\ ret = NoRet
        ELSE /\ last.kind = "ok"
             /\ StatCounts(last, ret)
             /\ IF StatRows(last) = {}
                THEN ret.accuracy = 0
                ELSE 2 * Abs(ret.accuracy * Cardinality(StatRows(last))
                             - 10000 * Cardinality(StatCorrect(last)))
                        <= Cardinality(StatRows(last))

\* statistics of a student with three interactions, two of them correct: 66.67
C9_Witness ==
    /\ last.op = "get_student_statistics" /\ last.kind = "ok"
    /\ ret.total_interactions = 3
    /\ ret.correct_interactions = 2
    /\ ret.accuracy = 6667
    /\ ret.skills_practiced = 2

\* C9 as claimed: the same, with accuracy exactly correct/total*100.
C9_AccuracyExact ==
    last.op = "get_student_statistics" =>
        IF last.arg \notin DOMAIN students
        THEN last.kind = "absent" /\ ret = NoRet
        ELSE /\ last.kind = "ok"
             /\ StatCounts(last, ret)
             /\ IF StatRows(last) = {}
                THEN ret.accuracy = 0
                ELSE ret.accuracy * Cardinality(StatRows(last))
                        = 10000 * Cardinality(StatCorrect(last))
====
